---- MODULE Spec2Model ----
(***************************************************************************)
(* A model of huffman::HuffmanTree (include/huffman.h, src/huffman.cpp)    *)
(* and of the two callers that drive it: main() in src/main.cpp and the    *)
(* unit tests in tests/test_huffman.cpp.                                   *)
(*                                                                         *)
(* A std::string / std::string_view is a sequence of character codes.     *)
(* A std::unique_ptr<Node> is a sequence of length 0 (nullptr) or 1 (the   *)
(* owned node), so p = nullptr is the null test and p[1] the dereference.  *)
(* A std::unordered_map is a function whose DOMAIN is its key set.         *)
(*                                                                         *)
(* The iteration order of std::unordered_map and the order in which        *)
(* std::priority_queue returns elements of equal priority are unspecified: *)
(* pq.top() is modelled as a choice among all nodes of least frequency.    *)
(***************************************************************************)
EXTENDS Integers, Sequences, FiniteSets, TLC

\* ---- bounds of the model ----
NumSyms == 3        \* size of the input alphabet
MaxLen == 4         \* longest input of main()
MaxBits == 3        \* longest bit string a test hands to decode after main's build
NumOpSyms == 2      \* size of the alphabet of the calls on the shared Coder
MaxOpLen == 2       \* longest text of a buildTree / encode call on the shared Coder
MaxOpBits == 2      \* longest bit string of a decode call on the shared Coder

\* ---- character codes ----
Chr0 == 48          \* '0'
Chr1 == 49          \* '1'
Chr2 == 50          \* '2', the invalid bit of test_decode_invalid_characters_throws
ChrA == 97          \* 'a'
ChrNul == 0         \* '\0', the character of an internal node

Symbols == ChrA..(ChrA + NumSyms - 1)
OpSymbols == ChrA..(ChrA + NumOpSyms - 1)
BitChars == {Chr0, Chr1, Chr2}

SeqsUpTo(S, n) == UNION {[1..k -> S] : k \in 0..n}

MainInputs == SeqsUpTo(Symbols, MaxLen) \ {<< >>}
TestBits == SeqsUpTo(BitChars, MaxBits)
OpTexts == SeqsUpTo(OpSymbols, MaxOpLen)
OpBits == SeqsUpTo(BitChars, MaxOpBits)

\* ---- Node ----
nullptr == << >>

\* Node::Node(char ch, int freq)
Leaf(ch, freq) ==
    [character |-> ch, frequency |-> freq, left |-> nullptr, right |-> nullptr]

\* Node::Node(int freq, unique_ptr<Node> l, unique_ptr<Node> r)
Internal(freq, l, r) ==
    [character |-> ChrNul, frequency |-> freq, left |-> l, right |-> r]

\* Node::isLeaf
isLeaf(n) == n.left = nullptr /\ n.right = nullptr

\* ---- maps ----
EmptyMap == [k \in {} |-> 0]

\* operator[] followed by assignment: m[k] = v
Put(m, k, v) == [x \in DOMAIN m \cup {k} |-> IF x = k THEN v ELSE m[x]]

\* ++frequencies_[ch]: operator[] value-initialises a missing key to 0.
\* The counts are int; a text of MaxLen characters stays far below INT_MAX.
Incr(m, ch) == Put(m, ch, (IF ch \in DOMAIN m THEN m[ch] ELSE 0) + 1)

RECURSIVE CountInto(_, _, _)
CountInto(m, text, i) ==
    IF i > Len(text) THEN m ELSE CountInto(Incr(m, text[i]), text, i + 1)

\* a bug: frequencies_.clear() is missing, the counts pile up over builds
calculateFrequencies_noClear(freqs, text) == CountInto(freqs, text, 1)

\* HuffmanTree::calculateFrequencies: the new value of frequencies_
calculateFrequencies(freqs, text) == CountInto(EmptyMap, text, 1)

\* ---- buildTree ----
\* the comparator of the priority queue
cmp(a, b) == a.frequency > b.frequency

\* a bug: the comparator is reversed, the queue hands out the heaviest node
top_maxHeap(pq) == {n \in pq : \A m \in pq : ~cmp(m, n)}

\* pq.top(): some node that the comparator puts below no other.  buildTree
\* moves the node out of pq.top() before pq.pop(); the pop_heap of libstdc++,
\* libc++ and MSVC never hands the moved-from (null) slot to the comparator,
\* so the pop only removes that slot.
top(pq) == {n \in pq : \A m \in pq : ~cmp(n, m)}

\* a bug: the merged node takes the frequency of its left child only
sumFreq_leftOnly(l, r) == l.frequency

\* int sumFreq = left->frequency + right->frequency
sumFreq(l, r) == l.frequency + r.frequency

\* the while loop of buildTree: every root it can end with
RECURSIVE mergeLoop(_)
mergeLoop(pq) ==
    IF Cardinality(pq) > 1
    THEN UNION {
            UNION { mergeLoop(((pq \ {l}) \ {r})
                               \cup {Internal(sumFreq(l, r), <<l>>, <<r>>)})
                    : r \in top(pq \ {l}) }
            : l \in top(pq) }
    ELSE pq

\* a bug: the single leaf itself becomes the root
singleRoot_bareLeaf(leaf) == leaf

\* the single unique character case: a root with a left child only
singleRoot(leaf) == Internal(leaf.frequency, <<leaf>>, nullptr)

\* the leaves pushed into the queue, then the root the queue is reduced to
buildRoots(freqs) ==
    LET pq == {Leaf(ch, freqs[ch]) : ch \in DOMAIN freqs}
    IN  IF Cardinality(pq) = 1
        THEN {singleRoot(leaf) : leaf \in pq}
        ELSE mergeLoop(pq)

\* a bug: '0' and '1' are exchanged
branchBit_swapped(goRight) == IF goRight THEN Chr0 ELSE Chr1

\* code.push_back('0') before the left child, code.push_back('1') before the right
branchBit(goRight) == IF goRight THEN Chr1 ELSE Chr0

\* a bug: the right child is visited with the parent's code
rightCode_noPush(code) == code

\* code.push_back('1')
rightCode(code) == Append(code, branchBit(TRUE))

\* HuffmanTree::generateCodes: huffmanCodes_ after the traversal of node
RECURSIVE generateCodes(_, _, _)
generateCodes(node, code, codes) ==
    IF node = nullptr THEN codes
    ELSE IF isLeaf(node[1])
         THEN Put(codes, node[1].character, IF code = << >> THEN <<Chr0>> ELSE code)
         ELSE generateCodes(node[1].right, rightCode(code),
                  generateCodes(node[1].left, Append(code, branchBit(FALSE)), codes))

\* the three members of HuffmanTree
Coder(r, f, c) == [root |-> r, frequencies |-> f, huffmanCodes |-> c]

\* a bug: the emptiness test comes after calculateFrequencies
buildTree_lateCheck(coder, text) ==
    LET f == calculateFrequencies(coder.frequencies, text)
    IN  IF text = << >>
        THEN {[status |-> "EmptyInputError",
               coder |-> Coder(coder.root, f, coder.huffmanCodes)]}
        ELSE {[status |-> "ok",
               coder |-> Coder(<<r>>, f, generateCodes(<<r>>, << >>, EmptyMap))]
              : r \in buildRoots(f)}

\* HuffmanTree::buildTree: every outcome of the call
buildTree(coder, text) ==
    IF text = << >>
    THEN {[status |-> "EmptyInputError", coder |-> coder]}
    ELSE LET f == calculateFrequencies(coder.frequencies, text)
         IN  {[status |-> "ok",
               coder |-> Coder(<<r>>, f, generateCodes(<<r>>, << >>, EmptyMap))]
              : r \in buildRoots(f)}

\* ---- encode ----
Fail(err) == [status |-> err, value |-> << >>]
Ok(v) == [status |-> "ok", value |-> v]

RECURSIVE Concat(_, _, _)
Concat(codes, text, i) ==
    IF i > Len(text) THEN << >> ELSE codes[text[i]] \o Concat(codes, text, i + 1)

\* the two loops of encode, for a built tree
encodeBuilt(coder, text) ==
    IF \E i \in 1..Len(text) : text[i] \notin DOMAIN coder.huffmanCodes
    THEN Fail("UnknownSymbolError")
    ELSE Ok(Concat(coder.huffmanCodes, text, 1))

\* a bug: the test of root_ is missing
encode_noBuiltCheck(coder, text) == encodeBuilt(coder, text)

\* HuffmanTree::encode
encode(coder, text) ==
    IF coder.root = nullptr THEN Fail("NotBuiltError") ELSE encodeBuilt(coder, text)

\* ---- decode ----
\* the loop of the single character tree
RECURSIVE decodeSingle(_, _, _, _)
decodeSingle(ch, bits, i, decoded) ==
    IF i > Len(bits) THEN Ok(decoded)
    ELSE IF bits[i] # Chr0 THEN Fail("InvalidBitError")
         ELSE decodeSingle(ch, bits, i + 1, Append(decoded, ch))

\* a bug: the final test of the walk position is missing
finish_noCheck(root, current, decoded) == Ok(decoded)

\* if (current != root_.get()) throw ...; return decoded
finish(root, current, decoded) ==
    IF current # root THEN Fail("IncompleteSequenceError") ELSE Ok(decoded)

\* a bug: '0' descends right and '1' descends left
child_swapped(current, bit) ==
    IF bit = Chr0 THEN current[1].right ELSE current[1].left

\* current = current->left.get() / current->right.get()
child(current, bit) ==
    IF bit = Chr0 THEN current[1].left ELSE current[1].right

\* the loop of the general case
RECURSIVE walk(_, _, _, _, _)
walk(root, current, bits, i, decoded) ==
    IF i > Len(bits) THEN finish(root, current, decoded)
    ELSE IF bits[i] \notin {Chr0, Chr1} THEN Fail("InvalidBitError")
         ELSE LET next == child(current, bits[i])
              IN  IF next = nullptr THEN Fail("TraversalError")
                  ELSE IF isLeaf(next[1])
                       THEN walk(root, root, bits, i + 1,
                                 Append(decoded, next[1].character))
                       ELSE walk(root, next, bits, i + 1, decoded)

\* HuffmanTree::decode
decode(coder, bits) ==
    IF coder.root = nullptr THEN Fail("NotBuiltError")
    ELSE LET r == coder.root[1]
         IN  IF r.left # nullptr /\ isLeaf(r.left[1]) /\ r.right = nullptr
             THEN decodeSingle(r.left[1].character, bits, 1, << >>)
             ELSE walk(coder.root, coder.root, bits, 1, << >>)

\* HuffmanTree::isBuilt
isBuilt(coder) == coder.root # nullptr

\* ---- state ----
VARIABLES
    root_,          \* std::unique_ptr<Node> root_
    frequencies_,   \* std::unordered_map<char, int> frequencies_
    huffmanCodes_,  \* std::unordered_map<char, std::string> huffmanCodes_
    input,          \* the text of the most recent successful buildTree
    earlier,        \* the characters of the texts built before that one
    call            \* the most recent call: operation, argument, outcome

vars == <<root_, frequencies_, huffmanCodes_, input, earlier, call>>

this == Coder(root_, frequencies_, huffmanCodes_)

Range(s) == {s[i] : i \in DOMAIN s}

Call(op, arg, src, res) ==
    [op |-> op, arg |-> arg, src |-> src, status |-> res.status, value |-> res.value]

\* HuffmanTree() = default, nothing called yet
Init ==
    /\ root_ = nullptr
    /\ frequencies_ = EmptyMap
    /\ huffmanCodes_ = EmptyMap
    /\ input = << >>
    /\ earlier = {}
    /\ call = Call("none", << >>, "none", Ok(<< >>))

\* tree.buildTree(text)
DoBuild(text) ==
    \E out \in buildTree(this, text) :
        /\ root_' = out.coder.root
        /\ frequencies_' = out.coder.frequencies
        /\ huffmanCodes_' = out.coder.huffmanCodes
        /\ input' = IF out.status = "ok" THEN text ELSE input
        /\ earlier' = IF out.status = "ok" /\ root_ # nullptr
                       THEN earlier \cup Range(input) ELSE earlier
        /\ call' = Call("buildTree", text, "caller", [status |-> out.status, value |-> << >>])

\* tree.encode(text): a const member function
DoEncode(text) ==
    /\ call' = Call("encode", text, "caller", encode(this, text))
    /\ UNCHANGED <<root_, frequencies_, huffmanCodes_, input, earlier>>

\* tree.decode(bits): a const member function
DoDecode(bits, src) ==
    /\ call' = Call("decode", bits, src, decode(this, bits))
    /\ UNCHANGED <<root_, frequencies_, huffmanCodes_, input, earlier>>

\* ---- the Coder under any sequence of calls ----
BuildTree == \E text \in OpTexts : DoBuild(text)
Encode == \E text \in OpTexts : DoEncode(text)
Decode == \E bits \in OpBits : DoDecode(bits, "caller")

Next == BuildTree \/ Encode \/ Decode

Spec == Init /\ [][Next]_vars

\* ---- main() and the tests that follow one build ----
\* main: input is not empty
MainInit ==
    /\ root_ = nullptr
    /\ frequencies_ = EmptyMap
    /\ huffmanCodes_ = EmptyMap
    /\ input \in MainInputs
    /\ earlier = {}
    /\ call = Call("none", << >>, "none", Ok(<< >>))

\* tree.buildTree(input)
MainBuild ==
    /\ call.op = "none"
    /\ DoBuild(input)

\* const std::string encoded = tree.encode(input)
MainEncode ==
    /\ call.op = "buildTree"
    /\ DoEncode(input)

\* const std::string decoded = tree.decode(encoded)
MainDecode ==
    /\ call.op = "encode" /\ call.status = "ok"
    /\ DoDecode(call.value, "encoded")

\* test_decode_incomplete_sequence_throws: encoded.substr(0, encoded.size() - 1)
TestDecodeTruncated ==
    /\ call.op = "encode" /\ call.status = "ok"
    /\ Len(call.value) > 1
    /\ DoDecode(SubSeq(call.value, 1, Len(call.value) - 1), "truncated")

\* test_decode_invalid_characters_throws and its like: tree.decode(bits)
TestDecodeBits ==
    /\ call.op = "buildTree"
    /\ \E bits \in TestBits : DoDecode(bits, "caller")

MainNext ==
    MainBuild \/ MainEncode \/ MainDecode \/ TestDecodeTruncated \/ TestDecodeBits

SpecMain == MainInit /\ [][MainNext]_vars

\* ======================= properties =======================
built == isBuilt(this)

\* the distinct characters of the text of the most recent successful build
alphabet == Range(input)

\* the number of occurrences of ch in text
Occurrences(text, ch) == Cardinality({i \in 1..Len(text) : text[i] = ch})

IsPrefix(p, s) == Len(p) <= Len(s) /\ SubSeq(s, 1, Len(p)) = p
IsProperPrefix(p, s) == Len(p) < Len(s) /\ IsPrefix(p, s)
IsBits(s) == \A i \in 1..Len(s) : s[i] \in {Chr0, Chr1}

RECURSIVE SumOver(_, _)
SumOver(S, f) ==
    IF S = {} THEN 0
    ELSE LET x == CHOOSE y \in S : TRUE IN f[x] + SumOver(S \ {x}, f)

RECURSIVE Pow2(_)
Pow2(n) == IF n = 0 THEN 1 ELSE 2 * Pow2(n - 1)

\* C1 (round trip): in main's flow, encode(input) succeeds after
\* buildTree(input), and decode of the encoded string returns exactly input,
\* whatever tree the tie-breaks produced.
C1_RoundTrip ==
    /\ (call.op = "encode" => call.status = "ok")
    /\ (call.op = "decode" /\ call.src = "encoded"
            => call.status = "ok" /\ call.value = input)

C1_Witness ==
    /\ call.op = "decode" /\ call.src = "encoded"
    /\ Cardinality(alphabet) >= 3
    /\ Len(input) = MaxLen
    /\ call.value = input

\* C2 (prefix-free): after a successful build on a text with at least two
\* distinct symbols, every symbol of the text has a non-empty code over
\* {'0','1'}, the codes of two symbols differ and none is a proper prefix of
\* another.
C2_PrefixFree ==
    built /\ Cardinality(alphabet) >= 2 =>
        /\ DOMAIN huffmanCodes_ = alphabet
        /\ \A s \in alphabet :
              huffmanCodes_[s] # << >> /\ IsBits(huffmanCodes_[s])
        /\ \A s, t \in alphabet :
              s # t => /\ huffmanCodes_[s] # huffmanCodes_[t]
                       /\ ~IsProperPrefix(huffmanCodes_[s], huffmanCodes_[t])

C2_Witness ==
    /\ built
    /\ Cardinality(alphabet) >= 3
    /\ \E s, t \in DOMAIN huffmanCodes_ :
          Len(huffmanCodes_[s]) # Len(huffmanCodes_[t])

\* the total encoded length of the text under a table of code lengths
Cost(freqs, len) == SumOver(DOMAIN freqs, [s \in DOMAIN freqs |-> freqs[s] * len[s]])

\* Kraft-McMillan: the tables of code lengths (each at most n for an alphabet
\* of n symbols) that some prefix-free binary code has
KraftLengths(syms) ==
    LET n == Cardinality(syms)
    IN  {len \in [syms -> 1..n] :
            SumOver(syms, [s \in syms |-> Pow2(n - len[s])]) <= Pow2(n)}

\* the same, tabulated once for every alphabet
KraftTable == [syms \in SUBSET Symbols |-> KraftLengths(syms)]

\* C3 (optimality): when buildTree returns from a text with at least two
\* distinct symbols, the sum of frequency * code length is no larger than
\* that of any prefix-free binary code for the same frequencies, for every
\* tie-break.  (encode and decode are const: the tables stay as they are.)
C3_Optimal ==
    call.op = "buildTree" /\ call.status = "ok" /\ Cardinality(alphabet) >= 2 =>
        LET syms == DOMAIN frequencies_
            huffman == Cost(frequencies_, [s \in syms |-> Len(huffmanCodes_[s])])
        IN  \A len \in KraftTable[syms] : huffman <= Cost(frequencies_, len)

C3_Witness ==
    /\ call.op = "buildTree" /\ call.status = "ok"
    /\ Cardinality(alphabet) >= 3
    /\ \E s \in DOMAIN frequencies_ :
          frequencies_[s] >= 2 /\ Len(huffmanCodes_[s]) = 1
    /\ \E len \in KraftTable[DOMAIN frequencies_] :
          Cost(frequencies_, [s \in DOMAIN frequencies_ |-> Len(huffmanCodes_[s])])
              < Cost(frequencies_, len)

\* ---- the truncated bitstream of test_decode_incomplete_sequence_throws ----
TextABC == <<ChrA, ChrA + 1, ChrA + 2>>

TruncatedABC ==
    call.op = "decode" /\ call.src = "truncated" /\ input = TextABC

RECURSIVE Parses(_, _)
Parses(codes, bits) ==
    IF bits = << >> THEN {<< >>}
    ELSE UNION {
            { <<s>> \o rest
              : rest \in Parses(codes, SubSeq(bits, Len(codes[s]) + 1, Len(bits))) }
            : s \in {t \in DOMAIN codes : IsPrefix(codes[t], bits)} }

\* C9 (decode outcome, general case): after a build on a text with at least
\* two distinct symbols, decode(bits) fails with InvalidBitError when bits has
\* a character outside {'0','1'}; otherwise it returns the symbols of bits
\* when bits is a concatenation of codes of the table, and fails with
\* IncompleteSequenceError when it is not; it never fails with TraversalError.
C9_DecodeOutcome ==
    call.op = "decode" /\ built /\ Cardinality(alphabet) >= 2 =>
        /\ call.status # "TraversalError"
        /\ IF ~IsBits(call.arg)
           THEN call.status = "InvalidBitError"
           ELSE IF Parses(huffmanCodes_, call.arg) # {}
                THEN /\ call.status = "ok"
                     /\ Parses(huffmanCodes_, call.arg) = {call.value}
                ELSE call.status = "IncompleteSequenceError"

C9_Witness ==
    /\ call.op = "decode" /\ call.src = "caller"
    /\ Cardinality(alphabet) >= 3
    /\ IsBits(call.arg) /\ Len(call.arg) = MaxBits
    /\ \E s \in alphabet : IsProperPrefix(huffmanCodes_[s], call.arg)
    /\ Parses(huffmanCodes_, call.arg) = {}
    /\ call.status = "IncompleteSequenceError"

\* ---- the shape of the stored tree ----
\* the nodes of the tree below a pointer
RECURSIVE NodesOf(_)
NodesOf(ptr) ==
    IF ptr = nullptr THEN {}
    ELSE {ptr[1]} \cup NodesOf(ptr[1].left) \cup NodesOf(ptr[1].right)

RECURSIVE NumLeaves(_)
NumLeaves(ptr) ==
    IF ptr = nullptr THEN 0
    ELSE IF isLeaf(ptr[1]) THEN 1
         ELSE NumLeaves(ptr[1].left) + NumLeaves(ptr[1].right)

LeafOrTwoChildren(n) ==
    \/ isLeaf(n) /\ n.character \in alphabet
    \/ /\ n.left # nullptr /\ n.right # nullptr
       /\ n.frequency = n.left[1].frequency + n.right[1].frequency

OneLeafPerSymbol ==
    /\ NumLeaves(root_) = Cardinality(alphabet)
    /\ {n.character : n \in {m \in NodesOf(root_) : isLeaf(m)}} = alphabet

StrictTree ==
    /\ \A n \in NodesOf(root_) : LeafOrTwoChildren(n)
    /\ OneLeafPerSymbol
    /\ root_[1].frequency = Len(input)

\* C10 as stated: after every successful build, also on a text with one
\* distinct symbol, every node is a leaf or has exactly two children.
C10_AsStated == built => StrictTree

\* C10 (tree shape), amended: after a successful build on a text with at
\* least two distinct symbols every node is a leaf holding one symbol or an
\* internal node with exactly two children whose frequency is the sum of
\* theirs; on a text with exactly one distinct symbol the root is an internal
\* node with a left leaf child only, carrying that leaf's frequency; in both
\* cases there is one leaf per distinct symbol and the root's frequency is
\* the length of the text.
C10_TreeShape ==
    built =>
        IF Cardinality(alphabet) >= 2
        THEN StrictTree
        ELSE /\ ~isLeaf(root_[1])
             /\ root_[1].right = nullptr
             /\ root_[1].left = <<Leaf(input[1], Len(input))>>
             /\ root_[1].frequency = root_[1].left[1].frequency
             /\ OneLeafPerSymbol
             /\ root_[1].frequency = Len(input)

C10_Witness ==
    /\ built
    /\ Cardinality(alphabet) >= 3
    /\ Len(input) > Cardinality(alphabet)
    /\ \E n \in NodesOf(root_) : ~isLeaf(n) /\ <<n>> # root_
    /\ StrictTree

\* ---- the Coder under any sequence of calls ----
members == <<root_, frequencies_, huffmanCodes_>>

\* the call just made returned no new tree: an encode, a decode or a failed build
NoBuildStep ==
    \/ call'.op \in {"encode", "decode"}
    \/ call'.op = "buildTree" /\ call'.status # "ok"

\* C4 (frame): every encode, every decode and every failing buildTree leaves
\* root_, frequencies_ and huffmanCodes_ (hence isBuilt) as they were.
C4_Frame == [][NoBuildStep => UNCHANGED members]_vars

C4_Witness ==
    /\ built
    /\ Cardinality(alphabet) >= 2
    /\ call.op = "buildTree" /\ call.arg = << >>
    /\ call.status = "EmptyInputError"
    /\ DOMAIN frequencies_ = alphabet

\* C5 (rebuild independence, frequency conservation): after any sequence of
\* builds, frequencies_ maps exactly the distinct bytes of the most recently
\* built text to their counts in it, the counts sum to its length,
\* huffmanCodes_ has exactly those keys, and encode of a text holding a byte
\* that only earlier texts held fails with UnknownSymbolError.
C5_Rebuild ==
    /\ built =>
          /\ DOMAIN frequencies_ = alphabet
          /\ \A s \in alphabet : frequencies_[s] = Occurrences(input, s)
          /\ SumOver(DOMAIN frequencies_, frequencies_) = Len(input)
          /\ DOMAIN huffmanCodes_ = alphabet
    /\ call.op = "encode" /\ (\E i \in 1..Len(call.arg) : call.arg[i] \in earlier \ alphabet)
          => call.status = "UnknownSymbolError" /\ call.value = << >>

C5_Witness ==
    /\ built
    /\ call.op = "encode"
    /\ \E i \in 1..Len(call.arg) : call.arg[i] \in earlier \ alphabet
    /\ call.status = "UnknownSymbolError"
    /\ Len(input) = MaxOpLen

\* C6 (lifecycle): a new Coder is not built; while it is not built every
\* encode and decode fails with NotBuiltError and a failed build leaves it
\* unbuilt; a successful build makes it built, it stays built under every
\* later call, and no encode or decode fails with NotBuiltError any more.
C6_State ==
    /\ call.op = "none" => ~built
    /\ call.op \in {"encode", "decode"} =>
          (call.status = "NotBuiltError" <=> ~built)
    /\ call.op = "buildTree" /\ call.status = "ok" => built

C6_Step ==
    /\ built => built'
    /\ ~built /\ call'.op = "buildTree" /\ call'.status # "ok" => ~built'

\* C6: C6_State in every state, C6_Step over every call
C6_Lifecycle == []C6_State /\ [][C6_Step]_vars

C6_Witness ==
    /\ ~built
    /\ call.op = "encode" /\ call.arg = << >>
    /\ call.status = "NotBuiltError"

\* ---- the single distinct symbol case ----
Copies(k, c) == [i \in 1..k |-> c]

\* C8 (single symbol): after a build on n >= 1 copies of one byte s the code
\* table is exactly {s -> "0"}; encode of k copies of s is k '0's; decode of
\* k '0's is k copies of s; decode of a string with any other character
\* fails with InvalidBitError.
C8_SingleSymbol ==
    built /\ Cardinality(alphabet) = 1 =>
        LET s == input[1]
        IN  /\ huffmanCodes_ = [c \in {s} |-> <<Chr0>>]
            /\ call.op = "encode" /\ call.arg = Copies(Len(call.arg), s)
                  => call.status = "ok" /\ call.value = Copies(Len(call.arg), Chr0)
            /\ call.op = "decode" =>
                  IF call.arg = Copies(Len(call.arg), Chr0)
                  THEN call.status = "ok" /\ call.value = Copies(Len(call.arg), s)
                  ELSE call.status = "InvalidBitError" /\ call.value = << >>

C8_Witness ==
    /\ built /\ Cardinality(alphabet) = 1
    /\ call.op = "decode"
    /\ call.arg = Copies(MaxOpBits, Chr0)
    /\ Len(input) # Len(call.arg)
    /\ call.value = Copies(MaxOpBits, input[1])

====
